---- MODULE Spec2Model ----
(***************************************************************************)
(* Model of generate_translations.py: the module-level script that builds  *)
(* the string catalog from the `translations` dictionary and dumps it as   *)
(* JSON over Localizable.xcstrings.                                        *)
(*                                                                         *)
(* A Python dict is modelled as a sequence of <<key, value>> pairs with    *)
(* pairwise distinct keys, in insertion order.  The output file is a       *)
(* record [exists, data] where data is the sequence of chunks on disk.     *)
(***************************************************************************)
EXTENDS Integers, Sequences, FiniteSets, TLC

VARIABLES
    translations,  \* the module-level dict literal
    catalog,       \* the module-level catalog dict
    idx,           \* number of keys the build loop has consumed
    pc,            \* position of the script
    file,          \* the output file on disk
    written,       \* chunks of json.dump that are on disk
    stdout,        \* lines printed by the running process
    prior,         \* history: the file as the running process found it
    outputs        \* history: the file as the last two successful runs left it

vars == <<translations, catalog, idx, pc, file, written, stdout, prior,
          outputs>>

----------------------------------------------------------------------------
(* Bounds of the model *)

MaxStrings == 2
MaxLangs == 2

(* Universe the translation table is drawn from *)
SourceStrings == {"Cancel", "Delete"}
LangCodes == {"en", "de", "fr"}
Texts == {"Cancel", "Annuler"}

----------------------------------------------------------------------------
(* Python dict operations on insertion-ordered pair sequences *)

DictKeys(d) == [i \in 1..Len(d) |-> d[i][1]]

DictKeySet(d) == {d[i][1] : i \in 1..Len(d)}

DictHas(d, k) == k \in DictKeySet(d)

DictGet(d, k) == d[CHOOSE i \in 1..Len(d) : d[i][1] = k][2]

\* d[k] = v moving the key to the front instead of keeping insertion order
DictSetFront(d, k, v) ==
    <<<<k, v>>>> \o SelectSeq(d, LAMBDA p : p[1] # k)

\* d[k] = v : an existing key keeps its position, a new key goes last
DictSet(d, k, v) ==
    IF DictHas(d, k)
    THEN [i \in 1..Len(d) |-> IF d[i][1] = k THEN <<k, v>> ELSE d[i]]
    ELSE Append(d, <<k, v>>)

\* The mapping a dict denotes (dict equality in Python ignores order)
DictAsMap(d) == [k \in DictKeySet(d) |-> DictGet(d, k)]

IsDict(d) == \A i, j \in 1..Len(d) : d[i][1] = d[j][1] => i = j

----------------------------------------------------------------------------
(* The input: every ordered table of at most MaxStrings rows of at most    *)
(* MaxLangs translations each.                                             *)

SeqsUpTo(S, n) == UNION {[1..m -> S] : m \in 0..n}

\* The sequences of at most n pairwise distinct keys out of K
KeySeqs(K, n) ==
    {ks \in SeqsUpTo(K, n) : \A i, j \in 1..Len(ks) : ks[i] = ks[j] => i = j}

\* The dicts with at most n keys out of K and values out of V
Dicts(K, V, n) ==
    UNION {{[i \in 1..Len(ks) |-> <<ks[i], vs[i]>>] : vs \in [1..Len(ks) -> V]} :
              ks \in KeySeqs(K, n)}

Rows == Dicts(LangCodes, Texts, MaxLangs)

Tables == Dicts(SourceStrings, Rows, MaxStrings)

\* The tables that use one text only: what is rerun below, where the texts
\* are payload that no step looks at
PlainTables ==
    {t \in Tables :
        \A i \in 1..Len(t) : \A j \in 1..Len(t[i][2]) :
            t[i][2][j][2] = "Annuler"}

----------------------------------------------------------------------------
(* The catalog builder *)

\* An entry that is marked as not reviewed
create_localization_entry_new(lang_code, value) ==
    [stringUnit |-> [state |-> "new", value |-> value]]

create_localization_entry(lang_code, value) ==
    [stringUnit |-> [state |-> "translated", value |-> value]]

RECURSIVE AddTranslationsKeyed(_, _)
\* The loop storing the language code where the translation belongs
AddTranslationsKeyed(localizations, items) ==
    IF items = <<>> THEN localizations
    ELSE AddTranslationsKeyed(
             DictSet(localizations, items[1][1],
                     create_localization_entry(items[1][1], items[1][1])),
             Tail(items))

RECURSIVE AddTranslations(_, _)
\* for lang_code, translation in translations[english_text].items(): ...
AddTranslations(localizations, items) ==
    IF items = <<>> THEN localizations
    ELSE AddTranslations(
             DictSet(localizations, items[1][1],
                     create_localization_entry(items[1][1], items[1][2])),
             Tail(items))

\* An entry that lacks the source-language unit
create_string_entry_bare(english_text) ==
    [localizations |->
        IF DictHas(translations, english_text)
        THEN AddTranslations(<<>>, DictGet(translations, english_text))
        ELSE <<>>]

create_string_entry(english_text) ==
    LET localizations ==
            <<<<"en", create_localization_entry("en", english_text)>>>>
    IN [localizations |->
          IF DictHas(translations, english_text)
          THEN AddTranslations(localizations,
                               DictGet(translations, english_text))
          ELSE localizations]

NewCatalog == [sourceLanguage |-> "en", strings |-> <<>>, version |-> "1.0"]

\* An iteration that misses the first key
LoopKeysSkipFirst ==
    SubSeq(DictKeys(translations), 2, Len(translations))

\* translations.keys()
LoopKeys == DictKeys(translations)

----------------------------------------------------------------------------
(* json.dump / json.load, at the granularity of one chunk per top-level    *)
(* member and per string entry.                                            *)

UnitChunk(p) == <<p[1], p[2].stringUnit.state, p[2].stringUnit.value>>

EntryChunk(p) ==
    [name |-> "strings", key |-> p[1],
     body |-> [i \in 1..Len(p[2].localizations) |->
                   UnitChunk(p[2].localizations[i])]]

Serialize(c) ==
    <<[name |-> "sourceLanguage", key |-> c.sourceLanguage, body |-> <<>>]>>
    \o [i \in 1..Len(c.strings) |-> EntryChunk(c.strings[i])]
    \o <<[name |-> "version", key |-> c.version, body |-> <<>>]>>

\* The strings member of a parsed document: source string -> lang -> unit
ParseStrings(data) ==
    LET es == SelectSeq(data, LAMBDA ch : ch.name = "strings")
        ks == {es[i].key : i \in 1..Len(es)}
        last(k) == es[CHOOSE i \in 1..Len(es) :
                         /\ es[i].key = k
                         /\ \A j \in 1..Len(es) : es[j].key = k => j <= i]
        unitOf(b, l) == b[CHOOSE i \in 1..Len(b) :
                         /\ b[i][1] = l
                         /\ \A j \in 1..Len(b) : b[j][1] = l => j <= i]
    IN [k \in ks |->
          [l \in {last(k).body[i][1] : i \in 1..Len(last(k).body)} |->
              [state |-> unitOf(last(k).body, l)[2],
               value |-> unitOf(last(k).body, l)[3]]]]

\* Re-derive the translation table from a parsed document
DeriveTable(data) ==
    LET s == ParseStrings(data)
    IN [k \in DOMAIN s |-> [l \in (DOMAIN s[k]) \ {"en"} |-> s[k][l].value]]

\* The table as a mapping of mappings
TableAsMap(t) == [k \in DictKeySet(t) |-> DictAsMap(DictGet(t, k))]

----------------------------------------------------------------------------
(* The output file *)

Absent == [exists |-> FALSE, data |-> <<>>]

ManualChunk ==
    [name |-> "strings", key |-> "Manual",
     body |-> <<<<"en", "translated", "Manual">>,
                <<"nl", "needs review", "Handmatig">>>>]

OldCatalog ==
    <<[name |-> "sourceLanguage", key |-> "en", body |-> <<>>],
      [name |-> "strings", key |-> "Cancel",
       body |-> <<<<"en", "translated", "Cancel">>,
                  <<"nl", "translated", "Annuleren">>>>],
      ManualChunk,
      [name |-> "strings", key |-> "Old",
       body |-> <<<<"en", "translated", "Old">>>>],
      [name |-> "version", key |-> "1.0", body |-> <<>>]>>

PriorFiles ==
    {Absent, [exists |-> TRUE, data |-> <<>>],
     [exists |-> TRUE, data |-> OldCatalog]}

\* open(path, "r+"): the file is kept as it is
OpenKeep(f) == [exists |-> TRUE, data |-> f.data]

\* open(path, "w"): the file is created or truncated
OpenTruncate(f) == [exists |-> TRUE, data |-> <<>>]

\* a write of chunk ch at chunk position pos (1-based) of the file
FileWrite(data, pos, ch) ==
    IF pos <= Len(data)
    THEN [data EXCEPT ![pos] = ch]
    ELSE Append(data, ch)

----------------------------------------------------------------------------
(* The script *)

Init ==
    /\ translations \in Tables
    /\ catalog = NewCatalog
    /\ idx = 0
    /\ pc = "idle"
    /\ file \in PriorFiles
    /\ written = 0
    /\ stdout = <<>>
    /\ prior = file
    /\ outputs = <<>>

\* python3 generate_translations.py: a new process executes the module
Invoke ==
    /\ pc \in {"idle", "done", "aborted"}
    /\ catalog' = NewCatalog
    /\ idx' = 0
    /\ written' = 0
    /\ stdout' = <<>>
    /\ pc' = "build"
    /\ prior' = file
    /\ UNCHANGED <<translations, file, outputs>>

\* one iteration of: for english_text in translations.keys()
BuildStep ==
    /\ pc = "build"
    /\ idx < Len(LoopKeys)
    /\ LET english_text == LoopKeys[idx + 1]
       IN catalog' = [catalog EXCEPT !.strings =
                         DictSet(@, english_text,
                                 create_string_entry(english_text))]
    /\ idx' = idx + 1
    /\ UNCHANGED <<translations, pc, file, written, stdout, prior, outputs>>

\* open(..., "w") succeeds
OpenOk ==
    /\ pc = "build"
    /\ idx = Len(LoopKeys)
    /\ file' = OpenTruncate(file)
    /\ pc' = "dump"
    /\ UNCHANGED <<translations, catalog, idx, written, stdout, prior,
                   outputs>>

\* open(..., "w") raises OSError: the exception ends the process
OpenFail ==
    /\ pc = "build"
    /\ idx = Len(LoopKeys)
    /\ pc' = "aborted"
    /\ UNCHANGED <<translations, catalog, idx, file, written, stdout, prior,
                   outputs>>

\* the next chunk of json.dump reaches the file
WriteChunk ==
    /\ pc = "dump"
    /\ written < Len(Serialize(catalog))
    /\ file' = [file EXCEPT !.data =
                   FileWrite(@, written + 1, Serialize(catalog)[written + 1])]
    /\ written' = written + 1
    /\ UNCHANGED <<translations, catalog, idx, pc, stdout, prior, outputs>>

\* a failed write that is swallowed: the script goes on to its last line
IOErrorSwallowed ==
    /\ pc = "dump"
    /\ written < Len(Serialize(catalog))
    /\ pc' = "print"
    /\ UNCHANGED <<translations, catalog, idx, file, written, stdout, prior,
                   outputs>>

\* the next chunk cannot be put on disk (the error surfaces in f.write or,
\* for buffered data, in the close of the with block): the exception leaves
\* the with block and ends the process
IOError ==
    /\ pc = "dump"
    /\ written < Len(Serialize(catalog))
    /\ pc' = "aborted"
    /\ UNCHANGED <<translations, catalog, idx, file, written, stdout, prior,
                   outputs>>

\* the with block ends: everything is on disk and the file is closed
Close ==
    /\ pc = "dump"
    /\ written = Len(Serialize(catalog))
    /\ pc' = "print"
    /\ outputs' = IF Len(outputs) = 2
                  THEN <<outputs[2], file.data>>
                  ELSE Append(outputs, file.data)
    /\ UNCHANGED <<translations, catalog, idx, file, written, stdout, prior>>

\* everything is on disk but closing the file raises OSError
CloseFail ==
    /\ pc = "dump"
    /\ written = Len(Serialize(catalog))
    /\ pc' = "aborted"
    /\ UNCHANGED <<translations, catalog, idx, file, written, stdout, prior,
                   outputs>>

\* print(f"... {len(translations)} strings in 10 languages")
PrintDone ==
    /\ pc = "print"
    /\ stdout' = Append(stdout, [strings |-> Len(translations),
                                 languages |-> 10])
    /\ pc' = "done"
    /\ UNCHANGED <<translations, catalog, idx, file, written, prior, outputs>>

\* between two runs somebody adds a string to the catalog file by hand
HandEdit ==
    /\ pc \in {"idle", "done", "aborted"}
    /\ file.exists
    /\ \A i \in 1..Len(file.data) : file.data[i] # ManualChunk
    /\ file' = [file EXCEPT !.data = Append(@, ManualChunk)]
    /\ UNCHANGED <<translations, catalog, idx, pc, written, stdout, prior,
                   outputs>>

\* the first invocation, over whatever the output location holds
FirstInvoke ==
    /\ pc = "idle"
    /\ Invoke

\* One run of the script, for every table and every prior file
Next ==
    \/ FirstInvoke
    \/ BuildStep
    \/ OpenOk
    \/ OpenFail
    \/ WriteChunk
    \/ IOError
    \/ Close
    \/ CloseFail
    \/ PrintDone

Spec == Init /\ [][Next]_vars

\* Any number of runs, successful or not, with hand edits of the file in
\* between
InitRerun ==
    /\ Init
    /\ translations \in PlainTables

NextRerun ==
    \/ Invoke
    \/ BuildStep
    \/ OpenOk
    \/ OpenFail
    \/ WriteChunk
    \/ IOError
    \/ Close
    \/ CloseFail
    \/ PrintDone
    \/ HandEdit

SpecRerun == InitRerun /\ [][NextRerun]_vars

----------------------------------------------------------------------------
(* Properties *)

\* The build loop of the current run has consumed every key
BuildFinished == pc # "idle" /\ idx = Len(LoopKeys)

\* The row of source string S, as translations.get(S, {})
RowOf(S) == IF DictHas(translations, S) THEN DictGet(translations, S) ELSE <<>>

\* The localizations dict of the entry of S in the catalog
LocsOf(S) == DictGet(catalog.strings, S).localizations

IsPrefix(s, t) == Len(s) <= Len(t) /\ \A i \in 1..Len(s) : s[i] = t[i]

IsStrictPrefix(s, t) == IsPrefix(s, t) /\ Len(s) < Len(t)

\* A row without its source-language item
StripSource(row) == SelectSeq(row, LAMBDA p : p[1] # "en")

\* C1: after the build loop, for every source string S of the table the
\* "en" unit of strings[S] has value S, whatever the row of S contains.
C1_SourceUnitIsSource ==
    BuildFinished =>
        \A S \in DictKeySet(translations) :
            /\ DictHas(catalog.strings, S)
            /\ DictHas(LocsOf(S), "en")
            /\ DictGet(LocsOf(S), "en").stringUnit.value = S

C3_LanguagesAreSourcePlusRow ==
    BuildFinished =>
        \A S \in DictKeySet(translations) :
            /\ DictHas(catalog.strings, S)
            /\ DictKeySet(LocsOf(S)) = {"en"} \cup DictKeySet(RowOf(S))
            /\ IsDict(LocsOf(S))
            /\ RowOf(S) = <<>> => Len(LocsOf(S)) = 1

C3_Witness ==
    /\ BuildFinished
    /\ \E S, T \in DictKeySet(translations) :
          /\ RowOf(S) = <<>>
          /\ DictKeySet(RowOf(T)) = {"de", "fr"}

\* C4: when the build loop has finished the keys of catalog["strings"] are
\* the keys of the table, one entry each; at every step they are a subset.
C4_OneEntryPerString ==
    /\ IsDict(catalog.strings)
    /\ DictKeySet(catalog.strings) \subseteq DictKeySet(translations)
    /\ BuildFinished =>
          /\ DictKeySet(catalog.strings) = DictKeySet(translations)
          /\ Len(catalog.strings) = Len(translations)

C4_Witness ==
    /\ BuildFinished
    /\ Len(translations) = 2
    /\ pc = "dump"
    /\ written = 0

\* C5 as stated: the table re-derived from the emitted file (source-language
\* unit stripped) equals the translation table.
C5_RoundTrip ==
    pc = "print" => DeriveTable(file.data) = TableAsMap(translations)

\* C5 amended: the table re-derived from the emitted file equals the
\* translation table with any "en" item removed from each row.
C5_RoundTripModuloSource ==
    pc = "print" =>
        DeriveTable(file.data)
            = [k \in DictKeySet(translations) |->
                  DictAsMap(StripSource(DictGet(translations, k)))]

C5_Witness ==
    /\ pc = "print"
    /\ Len(translations) = 2
    /\ DictKeySet(translations[1][2]) = {"en", "de"}
    /\ DictKeySet(translations[2][2]) = {"fr"}

\* C6: two successive successful runs leave the same file content, and no
\* step changes the translation table.
C6_Idempotent ==
    /\ [](Len(outputs) = 2 => outputs[1] = outputs[2])
    /\ [][translations' = translations]_vars

C6_Witness ==
    /\ Len(outputs) = 2
    /\ Len(translations) = 2
    /\ pc = "done"

\* C7: when a run has written and closed the file, the file is exactly the
\* serialization of the freshly built catalog, whatever it held before.
C7_FullOverwrite ==
    pc = "print" =>
        /\ file.exists
        /\ file.data = Serialize(catalog)
        /\ Len(file.data) = Len(translations) + 2
        /\ \A i \in 1..Len(file.data) :
              file.data[i].name = "strings"
                  => file.data[i].key \in DictKeySet(translations)

C7_Witness ==
    /\ pc = "print"
    /\ prior.exists
    /\ Len(prior.data) > Len(file.data)
    /\ \E i \in 1..Len(prior.data) : prior.data[i] = ManualChunk

\* C8: a failed open or write ends the run without confirmation and without
\* another attempt; the confirmation, carrying len(translations), is printed
\* only when the file holds the complete catalog.
C8_AbortOrConfirm ==
    /\ [](pc = "aborted" => stdout = <<>>)
    /\ [](stdout # <<>> =>
             /\ pc = "done"
             /\ stdout = <<[strings |-> Len(translations), languages |-> 10]>>)
    /\ [][pc' = "done" /\ pc # "done" =>
             /\ file.exists
             /\ file.data = Serialize(catalog)
             /\ file' = file]_vars
    /\ [][pc = "aborted" /\ pc' # "build" =>
             UNCHANGED <<pc, written, stdout, catalog>>]_vars
    /\ [][pc = "aborted" /\ pc' = "build" =>
             written' = 0 /\ catalog' = NewCatalog /\ file' = file]_vars

C8_Witness ==
    /\ pc = "aborted"
    /\ written > 0
    /\ written < Len(Serialize(catalog))
    /\ Len(translations) = 2
    /\ stdout = <<>>

\* C10 as stated: when a write fails part-way, after some of the catalog has
\* reached the file, the file holds neither its prior content nor the
\* complete new catalog.
C10_NeitherPriorNorNew ==
    [][pc = "dump" /\ pc' = "aborted"
       /\ 0 < written /\ written < Len(Serialize(catalog)) =>
          /\ file' # prior
          /\ file'.data # Serialize(catalog)]_vars

\* C10 amended: the file is truncated at open before anything is written,
\* and when a write fails the file holds a strict prefix of the new
\* serialization, which is its prior content only if the prior content was
\* that strict prefix; it is never the complete catalog.
C10_TruncatedPrefix ==
    /\ [][pc = "build" /\ pc' = "dump" =>
             file' = [exists |-> TRUE, data |-> <<>>] /\ written' = 0]_vars
    /\ [][pc = "dump" /\ pc' = "aborted"
              /\ written < Len(Serialize(catalog)) =>
             /\ file'.exists
             /\ IsStrictPrefix(file'.data, Serialize(catalog))
             /\ file'.data # Serialize(catalog)
             /\ file' = prior =>
                   prior.exists
                   /\ IsStrictPrefix(prior.data, Serialize(catalog))]_vars

C10_Witness ==
    /\ pc = "aborted"
    /\ written > 0
    /\ written < Len(Serialize(catalog))
    /\ prior.data = OldCatalog
    /\ file.data = SubSeq(Serialize(catalog), 1, written)

\* C9: at every step the entries added so far are, in order, the first idx
\* keys of the table; in each entry "en" comes first and the other languages
\* follow in the order of the row; the file lists the entries in table order.
C9_Ordering ==
    /\ DictKeys(catalog.strings) = SubSeq(DictKeys(translations), 1, idx)
    /\ \A i \in 1..Len(catalog.strings) :
          DictKeys(catalog.strings[i][2].localizations)
              = <<"en">> \o DictKeys(StripSource(RowOf(catalog.strings[i][1])))
    /\ pc = "print" =>
          LET es == SelectSeq(file.data, LAMBDA ch : ch.name = "strings")
          IN /\ [i \in 1..Len(es) |-> es[i].key] = DictKeys(translations)
             /\ \A i \in 1..Len(es) :
                   [j \in 1..Len(es[i].body) |-> es[i].body[j][1]]
                       = <<"en">> \o DictKeys(StripSource(translations[i][2]))

C9_Witness ==
    /\ pc = "print"
    /\ Len(translations) = 2
    /\ DictKeys(translations[2][2]) = <<"fr", "en">>
    /\ DictKeys(translations[1][2]) = <<"fr", "de">>

====
